---- MODULE Spec2Model ----
(***************************************************************************)
(* The two translation units of gendist:                                   *)
(*   gendist.cpp          - GeneticAlgorithm<VotingDistrict>, generation() *)
(*   GeneticAlgorithm.cpp - GeneticAlgorithm<double>,                      *)
(*                          inevitablePassageOfTime()                      *)
(* The strategies are the concrete ones each main() injects.  Rates are    *)
(* percentages (50 is 0.5), all of them exact in binary floating point.    *)
(* A gene of gendist.cpp is a shared_ptr<VotingDistrict>: the model holds  *)
(* the district id it points to, and the records live in leg_district_id   *)
(* and neighbors.  A gene of GeneticAlgorithm.cpp is a double, modelled by *)
(* an integer.                                                             *)
(***************************************************************************)
EXTENDS Integers, Sequences, FiniteSets, Bags, TLC

VARIABLES
  unit,             \* which translation unit runs
  population_size,  \* GeneticAlgorithmConfig
  mutation_rate,
  crossover_rate,
  prototype,
  neighbors,        \* VotingDistrict::neighbors of each record
  leg_district_id,  \* VotingDistrict::leg_district_id of each record
  population,
  num_mutate,
  num_crossover,
  new_pop,          \* the local of generation()
  it,               \* the loop position inside generation()
  pc,
  result,           \* how the last call ended
  calls,            \* number of calls made
  pre,              \* history: the population's content when the call began
  last_assigned,    \* history: the mutator's last assignment
  handed,           \* history: the pair last handed to the Crosser
  crossed           \* history: Crosser applications in this call

vars == <<unit, population_size, mutation_rate, crossover_rate, prototype,
          neighbors, leg_district_id, population, num_mutate, num_crossover,
          new_pop, it, pc, result, calls, pre, last_assigned, handed, crossed>>

MaxPop == 3
MaxDistricts == 3
MaxGen == 2

Units == {"gendist", "GeneticAlgorithm"}
Rates == {0, 50, 100, 150}
Topologies == {"chain", "isolated", "dangling"}
None == <<>>

Min(x, y) == IF x < y THEN x ELSE y
Max(x, y) == IF x < y THEN y ELSE x

(***************************************************************************)
(* Sequences, std::shuffle                                                 *)
(***************************************************************************)
Perms(n) == {f \in [1..n -> 1..n] : \A x, y \in 1..n : f[x] = f[y] => x = y}

Shuffle(s) == {[k \in 1..Len(s) |-> s[f[k]]] : f \in Perms(Len(s))}

RECURSIVE SeqBag(_)
SeqBag(s) == IF s = <<>> THEN EmptyBag ELSE SetToBag({Head(s)}) (+) SeqBag(Tail(s))

(***************************************************************************)
(* main() of gendist.cpp: the district file and the neighbor file          *)
(***************************************************************************)
FileLegDist(d) == 10 * d

FileNeighbors(top, nd, d) ==
  LET chain == (IF d > 1 THEN <<d - 1>> ELSE <<>>) \o (IF d < nd THEN <<d + 1>> ELSE <<>>)
  IN  CASE top = "chain" -> chain
        [] top = "isolated" -> IF d = nd THEN <<>> ELSE chain
        [] top = "dangling" -> IF d = 1 THEN chain \o <<nd + 1>> ELSE chain

(***************************************************************************)
(* Derived counts                                                          *)
(***************************************************************************)
Ceil(num, den) == (num + den - 1) \div den

NumOffByOne(n, rate) == (rate * n) \div 100 + 1

GendistCount(n, rate) == Ceil(rate * n, 100)

Percentage(value) == Min(100, Max(0, value))

GACount(n, rate) == (n * Percentage(rate)) \div 100

(***************************************************************************)
(* Values                                                                  *)
(***************************************************************************)
GeneValue(g, labels) == IF unit = "gendist" THEN <<g, labels[g]>> ELSE g

IndividualValue(ind, labels) == [j \in 1..Len(ind) |-> GeneValue(ind[j], labels)]

PopulationValue(pop, labels) == [k \in 1..Len(pop) |-> IndividualValue(pop[k], labels)]

(***************************************************************************)
(* Crossers                                                                *)
(***************************************************************************)
CopyTailCrosser(a, b, offset) ==
  <<[j \in 1..Len(a) |-> IF j > offset THEN b[j] ELSE a[j]], b>>

GendistCrosser(a, b, offset) ==
  <<[j \in 1..Len(a) |-> IF j > offset THEN b[j] ELSE a[j]],
    [j \in 1..Len(b) |-> IF j > offset /\ j <= Len(a) THEN a[j] ELSE b[j]]>>

GACrosser(individual, mate, offset) ==
  <<[j \in 1..Len(individual) |-> IF j <= offset THEN mate[j] ELSE individual[j]],
    [j \in 1..Len(mate) |-> IF j <= offset THEN individual[j] ELSE mate[j]]>>

(***************************************************************************)
(* Mutators                                                                *)
(***************************************************************************)
StaleNeighborLabel(other_vdist) == FileLegDist(other_vdist)

NeighborLabel(other_vdist) == leg_district_id[other_vdist]

Init ==
  /\ unit \in Units
  /\ population_size \in 0..MaxPop
  /\ mutation_rate \in Rates
  /\ crossover_rate \in Rates
  /\ \E nd \in 0..MaxDistricts, top \in Topologies :
       /\ prototype = IF unit = "gendist" THEN [d \in 1..nd |-> d]
                      ELSE [d \in 1..nd |-> 10 * d]
       /\ neighbors = IF unit = "gendist"
                      THEN [d \in 1..nd |-> FileNeighbors(top, nd, d)]
                      ELSE <<>>
       /\ leg_district_id = IF unit = "gendist" THEN [d \in 1..nd |-> FileLegDist(d)]
                            ELSE <<>>
  /\ population = <<>>
  /\ num_mutate = 0
  /\ num_crossover = 0
  /\ new_pop = <<>>
  /\ it = 0
  /\ pc = "start"
  /\ result = "none"
  /\ calls = 0
  /\ pre = None
  /\ last_assigned = None
  /\ handed = None
  /\ crossed = 0

(***************************************************************************)
(* gendist.cpp: GeneticAlgorithm::GeneticAlgorithm                         *)
(***************************************************************************)
Construct ==
  /\ unit = "gendist"
  /\ pc = "start"
  /\ population' = [k \in 1..population_size |-> prototype]
  /\ num_mutate' = GendistCount(population_size, mutation_rate)
  /\ num_crossover' = GendistCount(population_size, crossover_rate)
  /\ pc' = "idle"
  /\ UNCHANGED <<unit, population_size, mutation_rate, crossover_rate, prototype,
                 neighbors, leg_district_id, new_pop, it, result, calls, pre,
                 last_assigned, handed, crossed>>

(***************************************************************************)
(* gendist.cpp: GeneticAlgorithm::generation, one action per step          *)
(***************************************************************************)
Crash ==
  /\ pc' = "crashed"
  /\ UNCHANGED <<unit, population_size, mutation_rate, crossover_rate, prototype,
                 neighbors, leg_district_id, population, num_mutate, num_crossover,
                 new_pop, it, result, calls, pre, last_assigned, handed, crossed>>

Throw ==
  /\ pc' = "idle"
  /\ result' = "failed"
  /\ calls' = calls + 1
  /\ new_pop' = <<>>
  /\ UNCHANGED <<unit, population_size, mutation_rate, crossover_rate, prototype,
                 neighbors, leg_district_id, population, num_mutate, num_crossover,
                 it, pre, last_assigned, handed, crossed>>

Generation ==
  /\ unit = "gendist"
  /\ pc = "idle"
  /\ calls < MaxGen
  /\ new_pop' = [k \in 1..Len(population) |-> <<>>]
  /\ population' \in Shuffle(population)
  /\ it' = 0
  /\ pc' = "mutate"
  /\ result' = "running"
  /\ pre' = PopulationValue(population, leg_district_id)
  /\ handed' = None
  /\ crossed' = 0
  /\ UNCHANGED <<unit, population_size, mutation_rate, crossover_rate, prototype,
                 neighbors, leg_district_id, num_mutate, num_crossover, calls,
                 last_assigned>>

\* std::transform is at element `it` of [begin, begin + num_mutate)
InTransform == unit = "gendist" /\ pc = "mutate" /\ it < num_mutate

\* the element lies past population.end(): num_mutate exceeds the size
TransformPastEnd ==
  /\ InTransform
  /\ it >= Len(population)
  /\ Crash

\* VotingDistrictMutator::operator() reaches its assignment
MutatorAssign ==
  /\ InTransform
  /\ it < Len(population)
  /\ LET indiv == population[it + 1] IN
     \E p \in 1..Len(indiv) :
       LET vdist == indiv[p] IN
       \E q \in 1..Len(neighbors[vdist]) :
         LET other_vdist == neighbors[vdist][q] IN
         /\ other_vdist \in DOMAIN leg_district_id
         /\ leg_district_id' =
              [leg_district_id EXCEPT ![vdist] = NeighborLabel(other_vdist)]
         /\ last_assigned' = [vdist |-> vdist, label |-> NeighborLabel(other_vdist)]
         /\ new_pop' = [new_pop EXCEPT ![it + 1] = indiv]
  /\ it' = it + 1
  /\ UNCHANGED <<unit, population_size, mutation_rate, crossover_rate, prototype,
                 neighbors, population, num_mutate, num_crossover, pc, result,
                 calls, pre, handed, crossed>>

\* The distribution's bounds are (0, size - 1): with size 0 they are (0, -1),
\* which is undefined.  The draw returns some int, and at() on the empty
\* vector throws; a build with library assertions aborts instead.
EmptyRange(indiv) ==
  \/ indiv = <<>>
  \/ \E p \in 1..Len(indiv) : neighbors[indiv[p]] = <<>>

MutatorThrow ==
  /\ InTransform
  /\ it < Len(population)
  /\ LET indiv == population[it + 1] IN
     \/ EmptyRange(indiv)
     \/ \E p \in 1..Len(indiv) : \E q \in 1..Len(neighbors[indiv[p]]) :
          neighbors[indiv[p]][q] \notin DOMAIN leg_district_id
  /\ Throw

MutatorAbort ==
  /\ InTransform
  /\ it < Len(population)
  /\ EmptyRange(population[it + 1])
  /\ Crash

\* transform is done: the second shuffle
ShuffleNewPop ==
  /\ unit = "gendist"
  /\ pc = "mutate"
  /\ it >= num_mutate
  /\ new_pop' \in Shuffle(new_pop)
  /\ it' = 0
  /\ pc' = "cross"
  /\ UNCHANGED <<unit, population_size, mutation_rate, crossover_rate, prototype,
                 neighbors, leg_district_id, population, num_mutate, num_crossover,
                 result, calls, pre, last_assigned, handed, crossed>>

\* it < new_pop.begin() + num_crossover - 1.  With num_crossover = 0 the bound
\* is begin() - 1: below every iterator of a non-empty vector, and undefined
\* (null - 1, which compares above null) for an empty one.
InCrossLoop == unit = "gendist" /\ pc = "cross" /\ num_crossover > 0 /\ it < num_crossover - 1

NullBound == unit = "gendist" /\ pc = "cross" /\ num_crossover = 0 /\ Len(new_pop) = 0

CrossSwap ==
  /\ InCrossLoop
  /\ it + 2 <= Len(new_pop)
  /\ LET a == new_pop[it + 1]
         b == new_pop[it + 2]
     IN  /\ a # <<>>
         /\ Len(b) >= Len(a)
         /\ \E offset \in 0..(Len(a) - 1) :
              LET r == GendistCrosser(a, b, offset) IN
              new_pop' = [new_pop EXCEPT ![it + 1] = r[1], ![it + 2] = r[2]]
         /\ handed' = <<a, b>>
  /\ it' = it + 2
  /\ crossed' = crossed + 1
  /\ UNCHANGED <<unit, population_size, mutation_rate, crossover_rate, prototype,
                 neighbors, leg_district_id, population, num_mutate, num_crossover,
                 pc, result, calls, pre, last_assigned>>

\* a is empty: the bounds (0, -1) are undefined and the offset is any int;
\* offset 0 swaps nothing.
CrossEmptyContinue ==
  /\ InCrossLoop
  /\ it + 2 <= Len(new_pop)
  /\ new_pop[it + 1] = <<>>
  /\ handed' = <<new_pop[it + 1], new_pop[it + 2]>>
  /\ it' = it + 2
  /\ crossed' = crossed + 1
  /\ UNCHANGED <<unit, population_size, mutation_rate, crossover_rate, prototype,
                 neighbors, leg_district_id, population, num_mutate, num_crossover,
                 new_pop, pc, result, calls, pre, last_assigned>>

\* the pair lies past new_pop.end(), a is empty, or b is shorter than a:
\* swap_ranges reads and writes outside the vectors
CrossOutOfBounds ==
  /\ InCrossLoop
  /\ \/ it + 2 > Len(new_pop)
     \/ /\ it + 2 <= Len(new_pop)
        /\ \/ new_pop[it + 1] = <<>>
           \/ Len(new_pop[it + 2]) < Len(new_pop[it + 1])
  /\ Crash

NullBoundCrash ==
  /\ NullBound
  /\ Crash

Return ==
  /\ unit = "gendist"
  /\ pc = "cross"
  /\ ~InCrossLoop
  /\ pc' = "idle"
  /\ result' = "ok"
  /\ calls' = calls + 1
  /\ new_pop' = <<>>
  /\ UNCHANGED <<unit, population_size, mutation_rate, crossover_rate, prototype,
                 neighbors, leg_district_id, population, num_mutate, num_crossover,
                 it, pre, last_assigned, handed, crossed>>

(***************************************************************************)
(* GeneticAlgorithm.cpp: GeneticAlgorithm::GeneticAlgorithm.  The member   *)
(* is built as Population(population_size), that many empty Individuals,   *)
(* and the loop then pushes the prototype population_size times.           *)
(***************************************************************************)
GAConstruct ==
  /\ unit = "GeneticAlgorithm"
  /\ pc = "start"
  /\ population' = [k \in 1..population_size |-> <<>>]
                     \o [k \in 1..population_size |-> prototype]
  /\ num_mutate' = GACount(population_size, mutation_rate)
  /\ num_crossover' = GACount(population_size, crossover_rate)
  /\ pc' = "idle"
  /\ UNCHANGED <<unit, population_size, mutation_rate, crossover_rate, prototype,
                 neighbors, leg_district_id, new_pop, it, result, calls, pre,
                 last_assigned, handed, crossed>>

(***************************************************************************)
(* GeneticAlgorithm.cpp: the strategies main() injects                     *)
(***************************************************************************)
\* AllSame::operator() begins with individual.at(0)
AllSameThrows(individual) == individual = <<>>

Deltas == {-1, 0, 1}

\* every gene redrawn around its value
GaussianMutator(individual) ==
  {[j \in 1..Len(individual) |-> individual[j] + f[j]] :
     f \in [1..Len(individual) -> Deltas]}

(***************************************************************************)
(* GeneticAlgorithm.cpp: inevitablePassageOfTime.  An outcome is how the   *)
(* call ends and the population it leaves.                                 *)
(***************************************************************************)
Outcome(how, pop) == [how |-> how, population |-> pop]

InsertAt(s, i, x) == SubSeq(s, 1, i) \o <<x>> \o SubSeq(s, i + 1, Len(s))

\* std::transform over [begin, begin + k), the results stored over the range
RECURSIVE GATransform(_, _, _)
GATransform(pop, k, j) ==
  IF j > k THEN {pop}
  ELSE UNION {GATransform([pop EXCEPT ![j] = baby], k, j + 1) :
                baby \in GaussianMutator(pop[j])}

\* crosser(*i, *(i++)): the two arguments are evaluated in either order
GACrossArgs(pop, i) == {<<pop[i + 1], pop[i + 1]>>, <<pop[i + 2], pop[i + 1]>>}

\* GenericCrosser::operator(): the pairs it can return, "crashed" among them
\* when the bounds (0, size - 1) or the swapped range are out of bounds
GACrossResults(individual, mate) ==
  IF individual = <<>> THEN {"crashed", <<individual, mate>>}
  ELSE {IF offset > Len(mate) THEN "crashed" ELSE GACrosser(individual, mate, offset) :
          offset \in 0..(Len(individual) - 1)}

\* The loop at iterator i (0-based).  end() - 1 of an empty vector is null - 1.
\* insert() invalidates i: the next use crashes or finds i at the same index.
RECURSIVE GAPairLoop(_, _)
GAPairLoop(pop, i) ==
  IF Len(pop) = 0 THEN {Outcome("crashed", pop), Outcome("ok", pop)}
  ELSE IF ~(i < Len(pop) - 1) THEN {Outcome("ok", pop)}
  ELSE UNION {
         UNION {
           IF pair = "crashed" THEN {Outcome("crashed", pop)}
           ELSE {Outcome("crashed", InsertAt(pop, i + 1, pair[1]))}
                \cup GAPairLoop(InsertAt(InsertAt(pop, i + 1, pair[1]), i + 1, pair[2]),
                                i + 4)
           : pair \in GACrossResults(args[1], args[2])}
         : args \in GACrossArgs(pop, i)}

\* the second scoring loop, over the new population
GARescore(o) ==
  IF o.how = "ok" /\ \E k \in 1..Len(o.population) : AllSameThrows(o.population[k])
  THEN Outcome("failed", o.population)
  ELSE o

GAStepOutcomes(pop, k) ==
  UNION {UNION {UNION {{GARescore(o) : o \in GAPairLoop(p3, 0)} :
                         p3 \in Shuffle(p2)} :
                  p2 \in GATransform(p1, k, 1)} :
           p1 \in Shuffle(pop)}

inevitablePassageOfTime ==
  /\ unit = "GeneticAlgorithm"
  /\ pc = "idle"
  /\ calls < MaxGen
  /\ pre' = PopulationValue(population, leg_district_id)
  /\ \E o \in (IF \E k \in 1..Len(population) : AllSameThrows(population[k])
               THEN {Outcome("failed", population)}
               ELSE GAStepOutcomes(population, num_mutate)) :
       /\ population' = o.population
       /\ pc' = IF o.how = "crashed" THEN "crashed" ELSE "idle"
       /\ result' = o.how
       /\ calls' = IF o.how = "crashed" THEN calls ELSE calls + 1
  /\ UNCHANGED <<unit, population_size, mutation_rate, crossover_rate, prototype,
                 neighbors, leg_district_id, num_mutate, num_crossover, new_pop,
                 it, last_assigned, handed, crossed>>

Next ==
  \/ Construct
  \/ Generation
  \/ TransformPastEnd
  \/ MutatorAssign
  \/ MutatorThrow
  \/ MutatorAbort
  \/ ShuffleNewPop
  \/ CrossSwap
  \/ CrossEmptyContinue
  \/ CrossOutOfBounds
  \/ NullBoundCrash
  \/ Return
  \/ GAConstruct
  \/ inevitablePassageOfTime

Spec == Init /\ [][Next]_vars

(***************************************************************************)
(* The two GenericCrosser::operator() on their own: Individuals a and b of *)
(* equal length n >= 1 and every cut index the distribution can draw.      *)
(* new_pop holds the pair, pre the pair before, it the offset drawn.       *)
(***************************************************************************)
Genes == 1..MaxDistricts

Individuals(n) == [1..n -> Genes]

CrossInit ==
  /\ unit \in Units
  /\ \E n \in 1..MaxDistricts : new_pop \in Individuals(n) \X Individuals(n)
  /\ pre = None
  /\ it = 0
  /\ pc = "crosser"
  /\ population_size = 0
  /\ mutation_rate = 0
  /\ crossover_rate = 0
  /\ prototype = <<>>
  /\ neighbors = <<>>
  /\ leg_district_id = <<>>
  /\ population = <<>>
  /\ num_mutate = 0
  /\ num_crossover = 0
  /\ result = "none"
  /\ calls = 0
  /\ last_assigned = None
  /\ handed = None
  /\ crossed = 0

ApplyCrosser(crosser_unit, a, b, offset) ==
  IF crosser_unit = "gendist" THEN GendistCrosser(a, b, offset)
  ELSE GACrosser(a, b, offset)

CrossApply ==
  /\ pc = "crosser"
  /\ \E offset \in 0..(Len(new_pop[1]) - 1) :
       /\ new_pop' = ApplyCrosser(unit, new_pop[1], new_pop[2], offset)
       /\ it' = offset
  /\ pre' = new_pop
  /\ pc' = "crossed"
  /\ UNCHANGED <<unit, population_size, mutation_rate, crossover_rate, prototype,
                 neighbors, leg_district_id, population, num_mutate, num_crossover,
                 result, calls, last_assigned, handed, crossed>>

CrossNext == CrossApply

CrossSpec == CrossInit /\ [][CrossNext]_vars

(***************************************************************************)
(* Properties                                                              *)
(***************************************************************************)
Content == PopulationValue(population, leg_district_id)

\* C1: after construction and after every call the population holds
\* population_size Individuals.  GAConstruct leaves twice as many.
C1_PopulationSize == pc = "idle" => Len(population) = population_size

\* C2: after a call that failed part-way the population's content is, gene
\* by gene, what it was when the call began.  An assignment made by the
\* mutator before a later one throws stays in the shared records.
C2_FailedCallLeavesContent ==
  (pc = "idle" /\ result = "failed") => Content = pre

AssignStep == pc = "mutate" /\ pc' = "mutate" /\ it' = it + 1

\* C3: a mutation of one Individual changes no label of the adjacency
\* reference's records and no gene label of any other Individual.
C3_MutationIsPrivate ==
  [][AssignStep =>
       /\ \A d \in DOMAIN leg_district_id : leg_district_id'[d] = leg_district_id[d]
       /\ \A k \in DOMAIN population :
            k # it + 1 =>
              IndividualValue(population[k], leg_district_id')
                = IndividualValue(population[k], leg_district_id)]_vars

\* C4: every label the neighbor-constrained mutator assigns is the label one
\* of the gene's neighbors holds at that moment, and labels change in no
\* other way.
C4_AssignedLabelHeldByNeighbor ==
  [][/\ AssignStep =>
          LET d == last_assigned'.vdist
              l == last_assigned'.label
          IN  /\ leg_district_id'[d] = l
              /\ \E q \in 1..Len(neighbors[d]) :
                   /\ neighbors[d][q] \in DOMAIN leg_district_id
                   /\ leg_district_id[neighbors[d][q]] = l
              /\ \A e \in DOMAIN leg_district_id :
                   e # d => leg_district_id'[e] = leg_district_id[e]
     /\ ~AssignStep => leg_district_id' = leg_district_id]_vars

\* C4 witness: an assignment of a label that no neighbor had in the district
\* file, so one that reached the neighbor by an earlier mutation.
C4_Witness ==
  /\ last_assigned # None
  /\ leg_district_id[last_assigned.vdist] = last_assigned.label
  /\ \A q \in 1..Len(neighbors[last_assigned.vdist]) :
       FileLegDist(neighbors[last_assigned.vdist][q]) # last_assigned.label

\* C5: construction yields population_size Individuals, each equal to the
\* prototype.  GAConstruct puts population_size empty Individuals in front.
C5_ConstructClonesPrototype ==
  (pc = "idle" /\ calls = 0) =>
    /\ Len(population) = population_size
    /\ \A k \in DOMAIN population : population[k] = prototype

\* C6: every Individual of the population, and every Individual handed to
\* the Crosser, has the prototype's length.
C6_IndividualLength ==
  /\ \A k \in DOMAIN population : Len(population[k]) = Len(prototype)
  /\ handed # None =>
       Len(handed[1]) = Len(prototype) /\ Len(handed[2]) = Len(prototype)

\* C7 as stated: both crossers keep the heads [0, c) and exchange the tails
\* [c, n).  GeneticAlgorithm.cpp exchanges the heads.
C7_TailExchange ==
  pc = "crossed" =>
    LET a == pre[1]
        b == pre[2]
        a2 == new_pop[1]
        b2 == new_pop[2]
    IN  /\ Len(a2) = Len(a) /\ Len(b2) = Len(b)
        /\ \A i \in 0..(Len(a) - 1) :
             IF i < it THEN a2[i + 1] = a[i + 1] /\ b2[i + 1] = b[i + 1]
             ELSE a2[i + 1] = b[i + 1] /\ b2[i + 1] = a[i + 1]
        /\ SeqBag(a2 \o b2) = SeqBag(a \o b)

\* C7 amended: gendist.cpp keeps the heads [0, c) and exchanges the tails
\* [c, n); GeneticAlgorithm.cpp exchanges the heads [0, c) and keeps the
\* tails; either way the multiset of genes across the pair is kept.
C7_SegmentExchange ==
  pc = "crossed" =>
    LET a == pre[1]
        b == pre[2]
        a2 == new_pop[1]
        b2 == new_pop[2]
    IN  /\ Len(a2) = Len(a) /\ Len(b2) = Len(b)
        /\ \A i \in 0..(Len(a) - 1) :
             IF (i < it) = (unit = "gendist")
             THEN a2[i + 1] = a[i + 1] /\ b2[i + 1] = b[i + 1]
             ELSE a2[i + 1] = b[i + 1] /\ b2[i + 1] = a[i + 1]
        /\ SeqBag(a2 \o b2) = SeqBag(a \o b)

\* C7 witness: GeneticAlgorithm.cpp's crosser cut inside the Individuals of
\* a pair that differs on both sides of the cut.
C7_Witness ==
  /\ pc = "crossed"
  /\ unit = "GeneticAlgorithm"
  /\ it > 0
  /\ it < Len(pre[1])
  /\ pre[1][1] # pre[2][1]
  /\ pre[1][Len(pre[1])] # pre[2][Len(pre[1])]

BadConfig ==
  \/ population_size = 0
  \/ prototype = <<>>
  \/ Ceil(Percentage(mutation_rate) * population_size, 100) > population_size
  \/ Ceil(Percentage(crossover_rate) * population_size, 100) > population_size

\* C9: no Engine is constructed from population_size 0, an empty prototype
\* or derived counts above population_size.  Neither constructor checks.
C9_ConstructRejects == BadConfig => pc = "start"

\* C10: the Individuals the mutation phase did not take enter recombination
\* with their content of before the step, and a call that completes applied
\* the Crosser to num_crossover / 2 pairs.  generation() leaves them empty.
C10_PhaseCounts ==
  /\ (unit = "gendist" /\ pc = "mutate" /\ it = num_mutate) =>
       \A k \in (num_mutate + 1)..population_size :
         /\ k \in DOMAIN new_pop
         /\ \E j \in DOMAIN pre :
              IndividualValue(new_pop[k], leg_district_id) = pre[j]
  /\ (pc = "idle" /\ result = "ok") => crossed = num_crossover \div 2
====
